---- MODULE Spec2Model ----
(***************************************************************************)
(* State-machine model of the sharded loss engine (onmt/utils/loss.py),    *)
(* the transformer decoder state and cache (onmt/decoders/transformer.py)  *)
(* and the convolutional decoder state (onmt/decoders/cnn_decoder.py).     *)
(***************************************************************************)
EXTENDS Integers, Sequences, FiniteSets, TLC

(***************************************************************************)
(* Bounds of the model.                                                    *)
(***************************************************************************)
MaxRows == 3
MaxShard == 2

(***************************************************************************)
(* Values.  A tensor is its rows along dimension 0 and its requires_grad   *)
(* flag; None is a record of its own so that the two compare.              *)
(***************************************************************************)
NoneV == [kind |-> "None"]

Tensor(rows, rg) == [kind |-> "tensor", rows |-> rows, requires_grad |-> rg]

IsTensor(v) == v.kind = "tensor"

SeqsUpTo(S, n) == UNION {[1..k -> S] : k \in 0..n}

\* Decoder output rows: the token the generator scores highest for the row.
Hidden == {1, 2}

\* Target tokens: padding_idx and one word.
padding_idx == 0

Tokens == {padding_idx, 1}

\* The order in which a dict built as {"output": .., "target": ..} iterates.
KeyOrder == <<"output", "target">>

KeysOf(d) == SelectSeq(KeyOrder, LAMBDA k : k \in DOMAIN d)

Min(a, b) == IF a <= b THEN a ELSE b

RECURSIVE Concat(_)
Concat(ss) == IF ss = <<>> THEN <<>> ELSE Head(ss) \o Concat(Tail(ss))

RECURSIVE SumSeq(_)
SumSeq(s) == IF s = <<>> THEN 0 ELSE Head(s) + SumSeq(Tail(s))

(***************************************************************************)
(* torch.split(v, split_size) along dimension 0: chunks of split_size rows,*)
(* the last one shorter; a tensor of no rows gives one empty chunk.        *)
(***************************************************************************)
\* A faulty split: the last, shorter chunk is dropped.
RECURSIVE SplitDropTail(_, _)
SplitDropTail(rows, n) ==
    IF Len(rows) < n THEN <<>>
    ELSE <<SubSeq(rows, 1, n)>> \o SplitDropTail(SubSeq(rows, n + 1, Len(rows)), n)

\* A faulty split: a last chunk shorter than n is joined to the one before.
RECURSIVE SplitJoinTail(_, _)
SplitJoinTail(rows, n) ==
    IF Len(rows) < 2 * n THEN <<rows>>
    ELSE <<SubSeq(rows, 1, n)>> \o SplitJoinTail(SubSeq(rows, n + 1, Len(rows)), n)

RECURSIVE Split(_, _)
Split(rows, n) ==
    IF Len(rows) <= n THEN <<rows>>
    ELSE <<SubSeq(rows, 1, n)>> \o Split(SubSeq(rows, n + 1, Len(rows)), n)

(***************************************************************************)
(* Statistics: the accumulator record; update merges by pairwise sum.      *)
(***************************************************************************)
Statistics(loss, n_words, n_correct) ==
    [loss |-> loss, n_words |-> n_words, n_correct |-> n_correct]

EmptyStatistics == Statistics(0, 0, 0)

StatisticsUpdate(a, b) ==
    Statistics(a.loss + b.loss, a.n_words + b.n_words, a.n_correct + b.n_correct)

(***************************************************************************)
(* NMTLossCompute._make_shard_state: output as given, target the slice     *)
(* batch.tgt[range_[0] + 1 : range_[1]] (0-based, end exclusive, clamped). *)
(***************************************************************************)
PySlice(s, lo, hi) == SubSeq(s, lo + 1, Min(hi, Len(s)))

\* A faulty variant: the slice begins at range_[0] itself.
TargetSliceFromStart(tgt, range_start, range_end) == PySlice(tgt, range_start, range_end)

\* batch.tgt[range_[0] + 1 : range_[1]]
TargetSlice(tgt, range_start, range_end) == PySlice(tgt, range_start + 1, range_end)

make_shard_state(batch_tgt, output, range_start, range_end) ==
    [output |-> output,
     target |-> Tensor(TargetSlice(batch_tgt, range_start, range_end), FALSE)]

(***************************************************************************)
(* NMTLossCompute._compute_loss and LossComputeBase._stats.  The criterion *)
(* is built with reduction="sum" and ignore_index=padding_idx: the loss is *)
(* the sum of the per-row losses of the rows whose target is not padding.  *)
(* The criterion refuses scores and targets of different lengths.          *)
(***************************************************************************)
RowLoss(h, t) == IF t = padding_idx THEN 0 ELSE IF h = t THEN 1 ELSE 2

criterion(scores, gtruth) == SumSeq([i \in 1..Len(scores) |-> RowLoss(scores[i], gtruth[i])])

stats(loss, scores, target) ==
    LET non_padding == {i \in 1..Len(target) : target[i] # padding_idx}
        correct == {i \in non_padding : scores[i] = target[i]}
    IN  Statistics(loss, Cardinality(non_padding), Cardinality(correct))

compute_loss(output, target, should_compute_stats) ==
    IF Len(output) # Len(target)
    THEN [ok |-> FALSE, loss |-> 0, stats |-> EmptyStatistics]
    ELSE LET loss == criterion(output, target)
         IN  [ok |-> TRUE, loss |-> loss,
              stats |-> IF should_compute_stats
                        THEN stats(loss, output, target)
                        ELSE EmptyStatistics]

\* A faulty variant: statistics computed for every shard.
ShouldComputeStatsAlways(i) == TRUE

\* sharded_compute_loss passes should_compute_stats=(i == 0), i from enumerate.
ShouldComputeStats(i) == i = 0

(***************************************************************************)
(* filter_shard_state with a shard_size: every entry that is not None is   *)
(* paired with the list of its chunks, each a clone of the chunk's data    *)
(* that requires grad when the source does and has no .grad yet.           *)
(***************************************************************************)
Chunk(rows, rg) == [rows |-> rows, requires_grad |-> rg, has_grad |-> FALSE, grad |-> <<>>]

ChunksOf(v, shard_size) ==
    LET parts == Split(v.rows, shard_size)
    IN  [i \in 1..Len(parts) |-> Chunk(parts[i], v.requires_grad)]

filter_shard_state(state, shard_size) ==
    [k \in {x \in DOMAIN state : IsTensor(state[x])} |->
        [v |-> state[k], v_split |-> ChunksOf(state[k], shard_size)]]

(***************************************************************************)
(* filter_shard_state without a shard_size (the eval_only path): a lazy    *)
(* generator.  For each entry it yields (k, v) and then, there being no    *)
(* else, goes on to the chunking branch: for a tensor torch.split(v, None) *)
(* raises.  The result of consuming it: the pairs it yielded, and whether  *)
(* it raised.                                                              *)
(***************************************************************************)
RECURSIVE FilterUnsized(_, _)
FilterUnsized(state, keys) ==
    IF keys = <<>> THEN [pairs |-> <<>>, raised |-> FALSE]
    ELSE LET k == Head(keys)
             first == <<[key |-> k, value |-> state[k]]>>
         IN  IF IsTensor(state[k])
             THEN [pairs |-> first, raised |-> TRUE]
             ELSE LET rest == FilterUnsized(state, Tail(keys))
                  IN  [pairs |-> first \o rest.pairs, raised |-> rest.raised]

filter_shard_state_unsized(state) == FilterUnsized(state, KeysOf(state))

(***************************************************************************)
(* The state: the loss engine (one call of shards, made by                 *)
(* sharded_compute_loss or by another caller), build_loss_compute, the     *)
(* transformer decoder and the convolutional decoder.                      *)
(***************************************************************************)
VARIABLES
    caller,            \* "none", "sharded_compute_loss" or "direct"
    state,             \* the shard state handed to shards
    shard_size,
    eval_only,
    normalization,
    gen,               \* the generator: "none", "created", "yielded",
                       \* "finished", "raised" or "closed"
    non_none,          \* shards' local non_none: key -> (v, v_split)
    yielded,           \* the shards yielded so far, in yield order
    eval_item,         \* the item yielded under eval_only, and its consumption
    n_deferred,        \* calls of torch.autograd.backward made by shards
    orig_grad,         \* gradient handed to the original tensors, per key
    lpc,               \* sharded_compute_loss: "idle", "request", "body",
                       \* "returned" or "error"
    batch_stats,
    n_shard_backward   \* backward calls made on yielded shards

lossVars == <<caller, state, shard_size, eval_only, normalization, gen, non_none,
              yielded, eval_item, n_deferred, orig_grad, lpc, batch_stats,
              n_shard_backward>>

VARIABLES
    b_opt,             \* the opt of the last build_loss_compute call
    b_result,          \* "none", "AssertionError" or "returned"
    b_criterion,       \* the criterion of the returned NMTLossCompute
    b_constructed      \* criteria constructed by the last call

buildVars == <<b_opt, b_result, b_criterion, b_constructed>>

VARIABLES
    num_layers,
    self_attn_type,
    t_src,             \* self.state["src"], NoKey before init_state
    t_cache,           \* self.state["cache"]: NoKey, NoneV or Dict(..)
    t_pc,              \* "idle", or "layers" inside forward's layer loop
    t_i,               \* the loop index of forward
    t_step,            \* forward's step argument
    t_grad,            \* whether forward runs with autograd recording
    t_handed,          \* the layer_cache argument of each layer call so far
    t_last,            \* the last operation: name, outcome, arguments
    t_pre              \* the state before the last map_state or detach_state

transVars == <<num_layers, self_attn_type, t_src, t_cache, t_pc, t_i, t_step, t_grad,
               t_handed, t_last, t_pre>>

VARIABLES
    c_copy,            \* self._copy
    c_width,           \* cnn_kernel_width
    c_src,             \* self.state["src"], NoKey before init_state
    c_prev,            \* self.state["previous_input"]: NoKey, NoneV or tensor
    c_out,             \* dec_outs of the last forward: the positions it covers
    c_targets,         \* the targets of the forwards since init_state, joined
    c_last             \* the last operation: name, outcome, target length

cnnVars == <<c_copy, c_width, c_src, c_prev, c_out, c_targets, c_last>>

VARIABLES
    m_caller,          \* who called _make_shard_state: "none", "monolithic"
                       \* or "sharded"
    m_batch_tgt,       \* batch.tgt
    m_output,          \* output
    m_range,           \* range_
    m_shard_state,     \* the dict _make_shard_state returned
    m_pc,              \* "idle", "made", "returned" or "error"
    m_generator_calls, \* calls of self.generator since the call began
    m_criterion_calls, \* calls of self.criterion since the call began
    m_stats            \* the Statistics monolithic_compute_loss returned

monoVars == <<m_caller, m_batch_tgt, m_output, m_range, m_shard_state, m_pc,
              m_generator_calls, m_criterion_calls, m_stats>>

VARIABLES
    ls_args,           \* the arguments of the last LabelSmoothingLoss(..)
    ls_result,         \* "none", "constructed" or the exception raised
    ls_self            \* the fields the last constructor call had set

lsVars == <<ls_args, ls_result, ls_self>>

vars == <<lossVars, buildVars, transVars, cnnVars, monoVars, lsVars>>

(***************************************************************************)
(* State of the loss engine: one call of shards(state, shard_size,         *)
(* eval_only), made either by sharded_compute_loss or by another caller.   *)
(***************************************************************************)
NoItem == [status |-> "none", pairs |-> <<>>]

LossInit ==
    /\ caller = "none"
    /\ state = [output |-> NoneV]
    /\ shard_size = 1
    /\ eval_only = FALSE
    /\ normalization = 1
    /\ gen = "none"
    /\ non_none = <<>>
    /\ yielded = <<>>
    /\ eval_item = NoItem
    /\ n_deferred = 0
    /\ orig_grad = <<>>
    /\ lpc = "idle"
    /\ batch_stats = EmptyStatistics
    /\ n_shard_backward = 0

MinOf(S) == CHOOSE m \in S : \A x \in S : m <= x

\* zip(*values) stops with the shortest chunk list.
NumShards(nn) == IF DOMAIN nn = {} THEN 0 ELSE MinOf({Len(nn[k].v_split) : k \in DOMAIN nn})

\* dict(zip(keys, shard_tensors)) for the i-th shard.
ShardAt(nn, i) == [k \in DOMAIN nn |-> nn[k].v_split[i]]

\* A faulty variant: every tensor entry takes part, requiring grad or not.
GradKeysAllTensors(nn) == {k \in DOMAIN nn : IsTensor(state[k])}

\* The keys taking part in the deferred backward.
GradKeys(nn) == {k \in DOMAIN nn : IsTensor(state[k]) /\ state[k].requires_grad}

\* A faulty variant: the gradients are taken from the chunks in reverse order.
PairedGradReversed(nn, k) ==
    Concat([i \in 1..Len(nn[k].v_split) |->
               nn[k].v_split[Len(nn[k].v_split) + 1 - i].grad])

\* zip(torch.split(state[k], shard_size), [v_chunk.grad ...]): the gradient
\* each row of the original receives, slice i paired with chunk i.
PairedGrad(nn, k) == Concat([i \in 1..Len(nn[k].v_split) |-> nn[k].v_split[i].grad])

(***************************************************************************)
(* One resumption of the generator shards(state, shard_size, eval_only):   *)
(* it runs to its next yield, to its end, or to an exception.              *)
(***************************************************************************)
GenEval ==
    /\ eval_only
    /\ IF gen = "created"
       THEN /\ gen' = "yielded"
            /\ eval_item' = [status |-> "lazy", pairs |-> <<>>]
       ELSE /\ gen' = "finished"
            /\ UNCHANGED eval_item
    /\ UNCHANGED <<non_none, yielded, n_deferred, orig_grad>>

\* A faulty variant: the loop over the shards ends one shard early.
GenHasNextOffByOne(nn) == Len(yielded) + 1 < NumShards(nn)

\* for shard_tensors in zip(*values): is there another shard to yield?
GenHasNext(nn) == Len(yielded) < NumShards(nn)

GenShards ==
    /\ ~eval_only
    /\ LET nn == IF gen = "created" THEN filter_shard_state(state, shard_size)
                 ELSE non_none
       IN  /\ non_none' = nn
           /\ UNCHANGED eval_item
           /\ IF gen = "created" /\ DOMAIN nn = {}
              THEN \* keys, values = zip(*()) cannot be unpacked
                   /\ gen' = "raised"
                   /\ UNCHANGED <<yielded, n_deferred, orig_grad>>
              ELSE IF GenHasNext(nn)
              THEN /\ gen' = "yielded"
                   /\ yielded' = Append(yielded, ShardAt(nn, Len(yielded) + 1))
                   /\ UNCHANGED <<n_deferred, orig_grad>>
              ELSE IF GradKeys(nn) = {}
              THEN \* inputs, grads = zip(*[]) cannot be unpacked
                   /\ gen' = "raised"
                   /\ UNCHANGED <<yielded, n_deferred, orig_grad>>
              ELSE IF \E k \in GradKeys(nn) : \E i \in 1..Len(nn[k].v_split) :
                          ~nn[k].v_split[i].has_grad
              THEN \* torch.autograd.backward is called and refuses a None
                   \* gradient for a tensor that is not a scalar
                   /\ gen' = "raised"
                   /\ n_deferred' = n_deferred + 1
                   /\ UNCHANGED <<yielded, orig_grad>>
              ELSE /\ gen' = "finished"
                   /\ n_deferred' = n_deferred + 1
                   /\ orig_grad' = [k \in GradKeys(nn) |-> PairedGrad(nn, k)]
                   /\ UNCHANGED yielded

GenResume ==
    /\ gen \in {"created", "yielded"}
    /\ GenEval \/ GenShards

\* loss.backward() on the loss of the last yielded shard: every chunk of the
\* shard that requires grad and enters the loss receives its gradient.
BackwardOnShard(nn, i, grads) ==
    [k \in DOMAIN nn |->
        IF k \in DOMAIN grads /\ nn[k].v_split[i].requires_grad
        THEN [nn[k] EXCEPT !.v_split[i].has_grad = TRUE,
                           !.v_split[i].grad = grads[k]]
        ELSE nn[k]]

(***************************************************************************)
(* LossComputeBase.sharded_compute_loss, one step per position: the call   *)
(* (make the shard state, create the generator), the for loop asking the   *)
(* generator for its next shard, and the loop body.                        *)
(***************************************************************************)
TensorsOf(S) == {Tensor(r, g) : r \in SeqsUpTo(S, MaxRows), g \in BOOLEAN}

BatchTgts == UNION {[1..k -> Tokens] : k \in 1..(MaxRows + 1)}

sharded_compute_loss ==
    /\ caller = "none"
    /\ \E batch_tgt \in BatchTgts, output \in TensorsOf(Hidden),
          cur_trunc \in 0..1, trunc_size \in 1..(MaxRows + 1),
          size \in 1..MaxShard, norm \in 1..2 :
          /\ state' = make_shard_state(batch_tgt, output, cur_trunc, cur_trunc + trunc_size)
          /\ shard_size' = size
          /\ normalization' = norm
    /\ caller' = "sharded_compute_loss"
    /\ eval_only' = FALSE
    /\ gen' = "created"
    /\ lpc' = "request"
    /\ batch_stats' = EmptyStatistics
    /\ UNCHANGED <<non_none, yielded, eval_item, n_deferred, orig_grad, n_shard_backward>>
    /\ UNCHANGED <<buildVars, transVars, cnnVars, monoVars, lsVars>>

LoopNext ==
    /\ caller = "sharded_compute_loss"
    /\ lpc = "request"
    /\ GenResume
    /\ lpc' = CASE gen' = "yielded" -> "body"
                [] gen' = "finished" -> "returned"
                [] OTHER -> "error"
    /\ UNCHANGED <<caller, state, shard_size, eval_only, normalization, batch_stats,
                   n_shard_backward>>
    /\ UNCHANGED <<buildVars, transVars, cnnVars, monoVars, lsVars>>

\* The gradient loss.div(float(normalization)).backward() leaves on the rows
\* of the shard's output chunk: one value per row, naming the row's score,
\* its target and the normalization.
LossGrad(output, target, norm) == [j \in 1..Len(output) |-> <<output[j], target[j], norm>>]

LoopBody ==
    /\ caller = "sharded_compute_loss"
    /\ lpc = "body"
    /\ LET i == Len(yielded) - 1
           shard == yielded[Len(yielded)]
           r == compute_loss(shard.output.rows, shard.target.rows, ShouldComputeStats(i))
       IN  IF ~r.ok
           THEN \* the criterion raises; the for loop is left and the
                \* generator is closed without being resumed
                /\ lpc' = "error"
                /\ gen' = "closed"
                /\ UNCHANGED <<non_none, batch_stats, n_shard_backward>>
           ELSE /\ non_none' = BackwardOnShard(non_none, Len(yielded),
                                   [output |-> LossGrad(shard.output.rows,
                                                        shard.target.rows,
                                                        normalization)])
                /\ n_shard_backward' = n_shard_backward + 1
                /\ batch_stats' = StatisticsUpdate(batch_stats, r.stats)
                /\ lpc' = "request"
                /\ UNCHANGED gen
    /\ UNCHANGED <<caller, state, shard_size, eval_only, normalization, yielded,
                   eval_item, n_deferred, orig_grad>>
    /\ UNCHANGED <<buildVars, transVars, cnnVars, monoVars, lsVars>>

(***************************************************************************)
(* Any other caller of shards: it may ask for the next item, call backward *)
(* on the shard it holds, consume the item of an eval_only call, or drop   *)
(* the generator before exhausting it.                                     *)
(***************************************************************************)
ShardStates ==
    {[output |-> o, target |-> t] :
        o \in TensorsOf(Hidden) \cup {NoneV},
        t \in {Tensor(r, FALSE) : r \in SeqsUpTo(Tokens, MaxRows)} \cup {NoneV}}

shards ==
    /\ caller = "none"
    /\ \E st \in ShardStates, size \in 1..MaxShard, ev \in BOOLEAN :
          /\ state' = st
          /\ shard_size' = size
          /\ eval_only' = ev
    /\ caller' = "direct"
    /\ gen' = "created"
    /\ UNCHANGED <<normalization, non_none, yielded, eval_item, n_deferred, orig_grad,
                   lpc, batch_stats, n_shard_backward>>
    /\ UNCHANGED <<buildVars, transVars, cnnVars, monoVars, lsVars>>

DirectNext ==
    /\ caller = "direct"
    /\ GenResume
    /\ UNCHANGED <<caller, state, shard_size, eval_only, normalization, lpc,
                   batch_stats, n_shard_backward>>
    /\ UNCHANGED <<buildVars, transVars, cnnVars, monoVars, lsVars>>

DirectBackward ==
    /\ caller = "direct"
    /\ gen = "yielded"
    /\ ~eval_only
    /\ LET i == Len(yielded)
           shard == yielded[i]
       IN  /\ \E k \in DOMAIN shard : shard[k].requires_grad /\ ~non_none[k].v_split[i].has_grad
           /\ non_none' = BackwardOnShard(non_none, i,
                              [k \in DOMAIN shard |->
                                  [j \in 1..Len(shard[k].rows) |-> <<shard[k].rows[j], 0, 1>>]])
    /\ n_shard_backward' = n_shard_backward + 1
    /\ UNCHANGED <<caller, state, shard_size, eval_only, normalization, gen, yielded,
                   eval_item, n_deferred, orig_grad, lpc, batch_stats>>
    /\ UNCHANGED <<buildVars, transVars, cnnVars, monoVars, lsVars>>

DirectConsumeItem ==
    /\ caller = "direct"
    /\ eval_item.status = "lazy"
    /\ LET r == filter_shard_state_unsized(state)
       IN  eval_item' = [status |-> IF r.raised THEN "raised" ELSE "consumed",
                         pairs |-> r.pairs]
    /\ UNCHANGED <<caller, state, shard_size, eval_only, normalization, gen, non_none,
                   yielded, n_deferred, orig_grad, lpc, batch_stats, n_shard_backward>>
    /\ UNCHANGED <<buildVars, transVars, cnnVars, monoVars, lsVars>>

DirectAbandon ==
    /\ caller = "direct"
    /\ gen \in {"created", "yielded"}
    /\ gen' = "closed"
    /\ UNCHANGED <<caller, state, shard_size, eval_only, normalization, non_none,
                   yielded, eval_item, n_deferred, orig_grad, lpc, batch_stats,
                   n_shard_backward>>
    /\ UNCHANGED <<buildVars, transVars, cnnVars, monoVars, lsVars>>

LossNext ==
    \/ sharded_compute_loss
    \/ LoopNext
    \/ LoopBody
    \/ shards
    \/ DirectNext
    \/ DirectBackward
    \/ DirectConsumeItem
    \/ DirectAbandon

(***************************************************************************)
(* build_loss_compute(model, tgt_vocab, opt): the assertion on opt.k and   *)
(* opt.bisect_iter, then the choice of the criterion.  opt.loss_alpha is   *)
(* held in tenths (10 is 1, 15 is 1.5, 20 is 2.0).                         *)
(***************************************************************************)
MaxK == 2
MaxBisectIter == 2

LossFns == {"esoftmax", "tsallis"}

LossAlphas == {10, 13, 15, 20}

Opts ==
    [loss_fn : LossFns, loss_alpha : LossAlphas,
     k : -1..MaxK, bisect_iter : -1..MaxBisectIter]

\* A criterion: its class and the truncation parameters it was built with
\* (0 where the class takes none).
Criterion(cls, k, n_iter) == [cls |-> cls, k |-> k, n_iter |-> n_iter]

NoCriterion == Criterion("None", 0, 0)

\* A faulty variant: only positive values count as requested.
TopkBisectAssertPositiveOnly(opt) == opt.k <= 0 \/ opt.bisect_iter <= 0

\* assert opt.k == 0 or opt.bisect_iter == 0
TopkBisectAssert(opt) == opt.k = 0 \/ opt.bisect_iter = 0

select_criterion(opt) ==
    IF opt.loss_fn = "esoftmax" THEN Criterion("ESoftmaxLoss", 0, 0)
    ELSE IF opt.loss_alpha = 10 THEN Criterion("CrossEntropyLoss", 0, 0)
    ELSE IF opt.loss_alpha = 20
         THEN IF opt.k > 0 THEN Criterion("SparsemaxTopKLoss", opt.k, 0)
              ELSE IF opt.bisect_iter > 0
                   THEN Criterion("SparsemaxBisectLoss", 0, opt.bisect_iter)
                   ELSE Criterion("SparsemaxLoss", 0, 0)
    ELSE IF opt.loss_alpha = 15 /\ opt.bisect_iter = 0
         THEN IF opt.k > 0 THEN Criterion("Tsallis15TopKLoss", opt.k, 0)
              ELSE Criterion("Tsallis15Loss", 0, 0)
    ELSE Criterion("TsallisBisectLoss", 0, opt.bisect_iter)

BuildInit ==
    /\ b_opt = [loss_fn |-> "esoftmax", loss_alpha |-> 10, k |-> 0, bisect_iter |-> 0]
    /\ b_result = "none"
    /\ b_criterion = NoCriterion
    /\ b_constructed = 0

build_loss_compute ==
    \E opt \in Opts :
        /\ b_opt' = opt
        /\ IF ~TopkBisectAssert(opt)
           THEN /\ b_result' = "AssertionError"
                /\ b_criterion' = NoCriterion
                /\ b_constructed' = 0
           ELSE /\ b_result' = "returned"
                /\ b_criterion' = select_criterion(opt)
                /\ b_constructed' = 1
        /\ UNCHANGED <<lossVars, transVars, cnnVars, monoVars, lsVars>>

BuildNext ==
    \/ build_loss_compute

(***************************************************************************)
(* TransformerDecoder: self.state and the layer caches.  A tensor of the   *)
(* decoder state is its two leading axes, each the sequence of the labels  *)
(* of its entries, and whether it carries autograd history.  state.src is  *)
(* [src_len x batch x ..] (batch is axis 1); a cache tensor is             *)
(* [batch x time x ..] (batch is axis 0).                                  *)
(***************************************************************************)
BatchSize == 2
MaxLayers == 2
MaxStep == 2
MaxCacheLen == 3
SrcLen == 2

NoKey == [kind |-> "nokey"]

DTensor(ax0, ax1, hist) == [kind |-> "tensor", ax0 |-> ax0, ax1 |-> ax1, hist |-> hist]

IntV(n) == [kind |-> "int", val |-> n]

Steps == {NoneV} \cup {IntV(n) : n \in 0..MaxStep}

IdentityBatch == [i \in 1..BatchSize |-> i]

SrcPositions == [i \in 1..SrcLen |-> i]

\* fn of map_state: the selection of batch entries idx along axis batch_dim
\* (beam search passes index_select of the surviving hypotheses).
BatchSelections == [1..BatchSize -> 1..BatchSize]

Select(idx, ax) == [i \in 1..Len(idx) |-> ax[idx[i]]]

Fn(idx, v, batch_dim) ==
    IF batch_dim = 0 THEN [v EXCEPT !.ax0 = Select(idx, v.ax0)]
    ELSE [v EXCEPT !.ax1 = Select(idx, v.ax1)]

\* "layer_{}".format(i)
LayerKey(i) == <<"layer_", i>>

Dict(layers) == [kind |-> "dict", layers |-> layers]

(***************************************************************************)
(* TransformerDecoder._init_cache(memory_bank, num_layers, self_attn_type) *)
(***************************************************************************)
LayerCacheInit(attn_type, batch) ==
    IF attn_type = "average"
    THEN [memory_keys |-> NoneV, memory_values |-> NoneV,
          prev_g |-> DTensor(batch, <<0>>, FALSE)]
    ELSE [memory_keys |-> NoneV, memory_values |-> NoneV,
          self_keys |-> NoneV, self_values |-> NoneV]

\* A faulty variant: the last layer gets no entry.
init_cache_one_short(batch, n_layers, attn_type) ==
    Dict([k \in {LayerKey(l) : l \in 0..(n_layers - 2)} |->
              LayerCacheInit(attn_type, batch)])

init_cache(batch, n_layers, attn_type) ==
    Dict([k \in {LayerKey(l) : l \in 0..(n_layers - 1)} |->
              LayerCacheInit(attn_type, batch)])

\* A faulty variant: the cache is allocated anew at every incremental step.
NeedsInitCacheEveryStep(step) == step.kind = "int"

\* A faulty variant: an incremental step that finds no cache allocates one.
NeedsInitCacheWhenUnallocated(step) ==
    step.kind = "int" /\ (step.val = 0 \/ t_cache.kind # "dict")

\* if step == 0: self._init_cache(...)
NeedsInitCache(step) == step.kind = "int" /\ step.val = 0

(***************************************************************************)
(* The attention calls of one layer given a layer cache: the self          *)
(* attention appends the step's keys and values to the cached ones along   *)
(* the time axis (average attention replaces its accumulator), the context *)
(* attention fills memory_keys and memory_values once.                     *)
(***************************************************************************)
Appended(old, batch, col, grad) ==
    IF old.kind = "None" THEN DTensor(batch, <<col>>, grad)
    ELSE DTensor(old.ax0, Append(old.ax1, col), old.hist \/ grad)

Filled(old, batch, grad) ==
    IF old.kind = "None" THEN DTensor(batch, SrcPositions, grad) ELSE old

LayerAttend(lc, attn_type, batch, col, grad) ==
    IF attn_type = "average"
    THEN [memory_keys |-> Filled(lc.memory_keys, batch, grad),
          memory_values |-> Filled(lc.memory_values, batch, grad),
          prev_g |-> DTensor(lc.prev_g.ax0, <<lc.prev_g.ax1[1] + 1>>,
                             lc.prev_g.hist \/ grad)]
    ELSE [memory_keys |-> Filled(lc.memory_keys, batch, grad),
          memory_values |-> Filled(lc.memory_values, batch, grad),
          self_keys |-> Appended(lc.self_keys, batch, col, grad),
          self_values |-> Appended(lc.self_values, batch, col, grad)]

(***************************************************************************)
(* map_state's _recursive_map: fn on every leaf that is not None, nested   *)
(* dicts entered with the default batch_dim=0.                             *)
(***************************************************************************)
MapLeaf(idx, v) == IF v.kind = "None" THEN v ELSE Fn(idx, v, 0)

\* A faulty variant: nested dicts are not entered.
recursive_map_shallow(cache, idx) == cache

recursive_map(cache, idx) ==
    Dict([k \in DOMAIN cache.layers |->
            [f \in DOMAIN cache.layers[k] |-> MapLeaf(idx, cache.layers[k][f])]])

Last(op, ok, fn, arg) == [op |-> op, ok |-> ok, fn |-> fn, arg |-> arg]

NoPre == [src |-> NoKey, cache |-> NoKey]

\* self.state = {} of the constructor.
TransFresh ==
    /\ t_src = NoKey
    /\ t_cache = NoKey
    /\ t_pc = "idle"
    /\ t_i = 0
    /\ t_step = NoneV
    /\ t_grad = FALSE
    /\ t_handed = <<>>
    /\ t_last = Last("construct", "ok", <<>>, NoneV)
    /\ t_pre = NoPre

TransInit ==
    /\ num_layers \in 1..MaxLayers
    /\ self_attn_type \in {"scaled-dot", "average"}
    /\ TransFresh

init_state ==
    /\ t_pc = "idle"
    /\ \E hist \in BOOLEAN :
          LET src == DTensor(SrcPositions, IdentityBatch, hist)
          IN  /\ t_src' = src
              /\ t_last' = Last("init_state", "ok", <<>>, src)
    /\ t_cache' = NoneV
    /\ t_pre' = NoPre
    /\ UNCHANGED <<num_layers, self_attn_type, t_pc, t_i, t_step, t_grad, t_handed>>
    /\ UNCHANGED <<lossVars, buildVars, cnnVars, monoVars, lsVars>>

map_state ==
    /\ t_pc = "idle"
    /\ \E idx \in BatchSelections :
          IF t_src.kind = "nokey"
          THEN \* self.state["src"] raises KeyError
               /\ t_last' = Last("map_state", "raised", idx, NoneV)
               /\ UNCHANGED <<t_src, t_cache, t_pre>>
          ELSE /\ t_src' = Fn(idx, t_src, 1)
               /\ t_cache' = IF t_cache.kind = "dict" THEN recursive_map(t_cache, idx)
                             ELSE t_cache
               /\ t_pre' = [src |-> t_src, cache |-> t_cache]
               /\ t_last' = Last("map_state", "ok", idx, NoneV)
    /\ UNCHANGED <<num_layers, self_attn_type, t_pc, t_i, t_step, t_grad, t_handed>>
    /\ UNCHANGED <<lossVars, buildVars, cnnVars, monoVars, lsVars>>

detach_state ==
    /\ t_pc = "idle"
    /\ IF t_src.kind = "nokey"
       THEN /\ t_last' = Last("detach_state", "raised", <<>>, NoneV)
            /\ UNCHANGED <<t_src, t_pre>>
       ELSE /\ t_src' = [t_src EXCEPT !.hist = FALSE]
            /\ t_pre' = [src |-> t_src, cache |-> t_cache]
            /\ t_last' = Last("detach_state", "ok", <<>>, NoneV)
    /\ UNCHANGED <<num_layers, self_attn_type, t_cache, t_pc, t_i, t_step, t_grad,
                   t_handed>>
    /\ UNCHANGED <<lossVars, buildVars, cnnVars, monoVars, lsVars>>

\* The time length of the history a cache holds (0 when it holds none).
TimeLen(v) == IF v.kind = "tensor" THEN Len(v.ax1) ELSE 0

CacheLen(c) ==
    IF c.kind # "dict" THEN 0
    ELSE LET lens == {IF "prev_g" \in DOMAIN c.layers[k]
                      THEN c.layers[k].prev_g.ax1[1]
                      ELSE TimeLen(c.layers[k].self_keys) : k \in DOMAIN c.layers}
         IN  IF lens = {} THEN 0 ELSE CHOOSE m \in lens : \A x \in lens : x <= m

\* memory_bank.size(1): the batch the caller decodes, in its current order.
CurrentBatch == IF t_src.kind = "tensor" THEN t_src.ax1 ELSE IdentityBatch

\* forward up to the layer loop: the cache allocation of step 0, the read of
\* self.state["src"], the embeddings and the masks.
ForwardBegin ==
    /\ t_pc = "idle"
    /\ \E step \in Steps, grad \in BOOLEAN :
          /\ (step.kind = "int" /\ ~NeedsInitCache(step)) => CacheLen(t_cache) < MaxCacheLen
          /\ t_cache' = IF NeedsInitCache(step)
                        THEN init_cache(CurrentBatch, num_layers, self_attn_type)
                        ELSE t_cache
          /\ IF t_src.kind = "nokey"
             THEN \* self.state["src"] raises KeyError
                  /\ t_last' = Last("forward", "raised", <<>>, step)
                  /\ UNCHANGED <<t_pc, t_i, t_step, t_grad, t_handed>>
             ELSE /\ t_last' = Last("forward", "running", <<>>, step)
                  /\ t_pc' = "layers"
                  /\ t_i' = 0
                  /\ t_step' = step
                  /\ t_grad' = grad
                  /\ t_handed' = <<>>
    /\ t_pre' = NoPre
    /\ UNCHANGED <<num_layers, self_attn_type, t_src>>
    /\ UNCHANGED <<lossVars, buildVars, cnnVars, monoVars, lsVars>>

\* One iteration of forward's loop over the layers.
ForwardLayer ==
    /\ t_pc = "layers"
    /\ t_i < num_layers
    /\ IF t_step.kind = "None"
       THEN /\ t_handed' = Append(t_handed, NoneV)
            /\ t_i' = t_i + 1
            /\ UNCHANGED <<t_cache, t_pc, t_last>>
       ELSE IF t_cache.kind # "dict" \/ LayerKey(t_i) \notin DOMAIN t_cache.layers
       THEN \* self.state["cache"]["layer_i"] raises
            /\ t_pc' = "idle"
            /\ t_last' = Last("forward", "raised", <<>>, t_step)
            /\ UNCHANGED <<t_cache, t_i, t_handed>>
       ELSE /\ t_handed' = Append(t_handed, [kind |-> "key", name |-> LayerKey(t_i)])
            /\ t_cache' = [t_cache EXCEPT !.layers[LayerKey(t_i)] =
                              LayerAttend(@, self_attn_type, CurrentBatch, t_step.val,
                                          t_grad)]
            /\ t_i' = t_i + 1
            /\ UNCHANGED <<t_pc, t_last>>
    /\ UNCHANGED <<num_layers, self_attn_type, t_src, t_step, t_grad, t_pre>>
    /\ UNCHANGED <<lossVars, buildVars, cnnVars, monoVars, lsVars>>

\* forward after the loop: the layer norm and the returned outputs.
ForwardEnd ==
    /\ t_pc = "layers"
    /\ t_i = num_layers
    /\ t_pc' = "idle"
    /\ t_last' = Last("forward", "ok", <<>>, t_step)
    /\ UNCHANGED <<num_layers, self_attn_type, t_src, t_cache, t_i, t_step, t_grad,
                   t_handed, t_pre>>
    /\ UNCHANGED <<lossVars, buildVars, cnnVars, monoVars, lsVars>>

TransNext ==
    \/ init_state
    \/ map_state
    \/ detach_state
    \/ ForwardBegin
    \/ ForwardLayer
    \/ ForwardEnd

(***************************************************************************)
(* CNNDecoder: self.state = {src, previous_input}.  A target is            *)
(* [tgt_len x batch x ..]: axis 0 holds the tokens in time order.          *)
(***************************************************************************)
MaxTgtLen == 2
MaxDecoded == 4
MaxKernelWidth == 3

CnnTokens == {1, 2}

CnnTargets == UNION {[1..k -> CnnTokens] : k \in 1..MaxTgtLen}

\* A faulty variant: the decoded prefix is forgotten.
CnnCatNewOnly(prev, tgt) == tgt

\* torch.cat([previous_input, tgt], 0)
CnnCat(prev, tgt) == DTensor(prev.ax0 \o tgt.ax0, tgt.ax1, prev.hist \/ tgt.hist)

\* The convolutional stack: each layer sees its input with
\* cnn_kernel_width - 1 zero positions put in front, and the convolution of
\* that width gives back one output per position of the unpadded input.
GatedConvLen(padded_len, width) == padded_len - (width - 1)

ConvStackOut(len, width) == [p \in 1..GatedConvLen(len + (width - 1), width) |-> p]

\* dec_outs[previous_input.size(0):]
SliceOffPrefix(outs, prev_len) == SubSeq(outs, prev_len + 1, Len(outs))

CLast(op, ok, len) == [op |-> op, ok |-> ok, len |-> len]

CnnFresh ==
    /\ c_src = NoKey
    /\ c_prev = NoKey
    /\ c_out = <<>>
    /\ c_targets = <<>>
    /\ c_last = CLast("construct", "ok", 0)

CnnInit ==
    /\ c_copy \in BOOLEAN
    /\ c_width \in 2..MaxKernelWidth
    /\ CnnFresh

cnn_init_state ==
    /\ \E hist \in BOOLEAN : c_src' = DTensor(SrcPositions, IdentityBatch, hist)
    /\ c_prev' = NoneV
    /\ c_targets' = <<>>
    /\ c_last' = CLast("init_state", "ok", 0)
    /\ UNCHANGED <<c_copy, c_width, c_out>>
    /\ UNCHANGED <<lossVars, buildVars, transVars, monoVars, lsVars>>

cnn_forward ==
    \E toks \in CnnTargets :
        LET tgt == DTensor(toks, IF c_src.kind = "tensor" THEN c_src.ax1
                                 ELSE IdentityBatch, FALSE)
            prev_len == IF c_prev.kind = "tensor" THEN Len(c_prev.ax0) ELSE 0
        IN  /\ prev_len + Len(toks) <= MaxDecoded
            /\ IF c_prev.kind = "nokey" \/ c_copy
               THEN \* self.state["previous_input"] raises KeyError, or the
                    \* assertion on self._copy fails
                    /\ c_last' = CLast("forward", "raised", Len(toks))
                    /\ UNCHANGED <<c_prev, c_out, c_targets>>
               ELSE LET cat == IF c_prev.kind = "tensor" THEN CnnCat(c_prev, tgt)
                               ELSE tgt
                        outs == ConvStackOut(Len(cat.ax0), c_width)
                    IN  /\ c_out' = IF c_prev.kind = "tensor"
                                    THEN SliceOffPrefix(outs, prev_len)
                                    ELSE outs
                        /\ c_prev' = cat
                        /\ c_targets' = c_targets \o toks
                        /\ c_last' = CLast("forward", "ok", Len(toks))
            /\ UNCHANGED <<c_copy, c_width, c_src>>
            /\ UNCHANGED <<lossVars, buildVars, transVars, monoVars, lsVars>>

cnn_map_state ==
    /\ \E idx \in BatchSelections :
          IF c_src.kind = "nokey"
          THEN /\ c_last' = CLast("map_state", "raised", 0)
               /\ UNCHANGED <<c_src, c_prev>>
          ELSE /\ c_src' = Fn(idx, c_src, 1)
               /\ c_prev' = IF c_prev.kind = "tensor" THEN Fn(idx, c_prev, 1) ELSE c_prev
               /\ c_last' = CLast("map_state", "ok", 0)
    /\ UNCHANGED <<c_copy, c_width, c_out, c_targets>>
    /\ UNCHANGED <<lossVars, buildVars, transVars, monoVars, lsVars>>

cnn_detach_state ==
    /\ IF c_prev.kind # "tensor"
       THEN \* KeyError before init_state, AttributeError on None
            /\ c_last' = CLast("detach_state", "raised", 0)
            /\ UNCHANGED c_prev
       ELSE /\ c_prev' = [c_prev EXCEPT !.hist = FALSE]
            /\ c_last' = CLast("detach_state", "ok", 0)
    /\ UNCHANGED <<c_copy, c_width, c_src, c_out, c_targets>>
    /\ UNCHANGED <<lossVars, buildVars, transVars, monoVars, lsVars>>

CnnNext ==
    \/ cnn_init_state
    \/ cnn_forward
    \/ cnn_map_state
    \/ cnn_detach_state


(***************************************************************************)
(* _make_shard_state as its two callers use it.  sharded_compute_loss      *)
(* calls it with range_ = (cur_trunc, cur_trunc + trunc_size) and hands    *)
(* the result to shards; monolithic_compute_loss calls it with             *)
(* range_ = (0, batch.tgt.size(0)) and then calls _compute_loss once on    *)
(* the whole state: the generator, then the criterion.                     *)
(***************************************************************************)
NoShardState == [output |-> NoneV]

MonoInit ==
    /\ m_caller = "none"
    /\ m_batch_tgt = <<padding_idx>>
    /\ m_output = Tensor(<<>>, FALSE)
    /\ m_range = <<0, 0>>
    /\ m_shard_state = NoShardState
    /\ m_pc = "idle"
    /\ m_generator_calls = 0
    /\ m_criterion_calls = 0
    /\ m_stats = EmptyStatistics

\* range_ = ...; shard_state = self._make_shard_state(batch, output, range_, attns)
MakeShardStateCall(who, batch_tgt, output, range_) ==
    /\ m_pc = "idle"
    /\ m_caller' = who
    /\ m_batch_tgt' = batch_tgt
    /\ m_output' = output
    /\ m_range' = range_
    /\ m_shard_state' = make_shard_state(batch_tgt, output, range_[1], range_[2])
    /\ m_pc' = "made"
    /\ m_generator_calls' = 0
    /\ m_criterion_calls' = 0
    /\ m_stats' = EmptyStatistics

sharded_make_shard_state ==
    /\ \E batch_tgt \in BatchTgts, output \in TensorsOf(Hidden),
          cur_trunc \in 0..1, trunc_size \in 1..(MaxRows + 1) :
          MakeShardStateCall("sharded", batch_tgt, output,
                             <<cur_trunc, cur_trunc + trunc_size>>)
    /\ UNCHANGED <<lossVars, buildVars, transVars, cnnVars, lsVars>>

monolithic_compute_loss ==
    /\ \E batch_tgt \in BatchTgts, output \in TensorsOf(Hidden) :
          MakeShardStateCall("monolithic", batch_tgt, output, <<0, Len(batch_tgt)>>)
    /\ UNCHANGED <<lossVars, buildVars, transVars, cnnVars, lsVars>>

\* _, batch_stats = self._compute_loss(batch, **shard_state); return batch_stats
MonolithicLoss ==
    /\ m_caller = "monolithic"
    /\ m_pc = "made"
    /\ LET r == compute_loss(m_shard_state.output.rows, m_shard_state.target.rows, TRUE)
       IN  /\ m_generator_calls' = m_generator_calls + 1
           /\ m_criterion_calls' = m_criterion_calls + 1
           /\ m_pc' = IF r.ok THEN "returned" ELSE "error"
           /\ m_stats' = r.stats
    /\ UNCHANGED <<m_caller, m_batch_tgt, m_output, m_range, m_shard_state>>
    /\ UNCHANGED <<lossVars, buildVars, transVars, cnnVars, lsVars>>

MonoNext ==
    \/ sharded_make_shard_state
    \/ monolithic_compute_loss
    \/ MonolithicLoss

(***************************************************************************)
(* LabelSmoothingLoss.__init__(label_smoothing, tgt_vocab_size,            *)
(* ignore_index=-100).  label_smoothing is held in tenths (1 is 0.1, 10 is *)
(* 1.0); smoothing_value is the fraction label_smoothing over              *)
(* tgt_vocab_size - 2, kept as numerator and denominator.                  *)
(***************************************************************************)
MaxVocab == 4

LabelSmoothings == {-1, 0, 1, 5, 10, 11}

VocabSizes == -1..MaxVocab

\* The default of the signature, and indices near the ends of the vocabulary.
IgnoreIndices == {-100, -1, 0, 1}

NoInstance == [kind |-> "None"]

Fraction(num, den) == [num |-> num, den |-> den]

FractionZero == Fraction(0, 1)

\* one_hot[index] for a tensor of the given size: negative indices count from
\* the end; out of range raises IndexError.
IndexInRange(index, size) == -size <= index /\ index < size

Position(index, size) == IF index >= 0 THEN index + 1 ELSE size + index + 1

LabelSmoothingLoss_init(label_smoothing, tgt_vocab_size, ignore_index) ==
    IF ~(0 < label_smoothing /\ label_smoothing <= 10)
    THEN [result |-> "AssertionError", self |-> NoInstance]
    ELSE IF tgt_vocab_size - 2 = 0
    THEN [result |-> "ZeroDivisionError", self |-> NoInstance]
    ELSE IF tgt_vocab_size < 0
    THEN \* torch.full refuses a negative dimension
         [result |-> "RuntimeError", self |-> NoInstance]
    ELSE IF ~IndexInRange(ignore_index, tgt_vocab_size)
    THEN [result |-> "IndexError", self |-> NoInstance]
    ELSE LET smoothing_value == Fraction(label_smoothing, tgt_vocab_size - 2)
             one_hot == [i \in 1..tgt_vocab_size |->
                            IF i = Position(ignore_index, tgt_vocab_size)
                            THEN FractionZero ELSE smoothing_value]
         IN  [result |-> "constructed",
              self |-> [kind |-> "LabelSmoothingLoss",
                        ignore_index |-> ignore_index,
                        smoothing_value |-> smoothing_value,
                        one_hot |-> one_hot,
                        confidence |-> 10 - label_smoothing]]

LsInit ==
    /\ ls_args = [label_smoothing |-> 1, tgt_vocab_size |-> MaxVocab, ignore_index |-> -100]
    /\ ls_result = "none"
    /\ ls_self = NoInstance

LabelSmoothingLoss ==
    /\ \E label_smoothing \in LabelSmoothings, tgt_vocab_size \in VocabSizes,
          ignore_index \in IgnoreIndices :
          LET r == LabelSmoothingLoss_init(label_smoothing, tgt_vocab_size, ignore_index)
          IN  /\ ls_args' = [label_smoothing |-> label_smoothing,
                             tgt_vocab_size |-> tgt_vocab_size,
                             ignore_index |-> ignore_index]
              /\ ls_result' = r.result
              /\ ls_self' = r.self
    /\ UNCHANGED <<lossVars, buildVars, transVars, cnnVars, monoVars>>

LsNext ==
    \/ LabelSmoothingLoss
(***************************************************************************)
(* The specifications: one per component, the others held at rest.         *)
(***************************************************************************)
TransAtRest == num_layers = 1 /\ self_attn_type = "scaled-dot" /\ TransFresh

CnnAtRest == c_copy = FALSE /\ c_width = 2 /\ CnnFresh

InitLoss == LossInit /\ BuildInit /\ TransAtRest /\ CnnAtRest /\ MonoInit /\ LsInit

InitBuild == LossInit /\ BuildInit /\ TransAtRest /\ CnnAtRest /\ MonoInit /\ LsInit

InitTransformer == LossInit /\ BuildInit /\ TransInit /\ CnnAtRest /\ MonoInit /\ LsInit

InitCnn == LossInit /\ BuildInit /\ TransAtRest /\ CnnInit /\ MonoInit /\ LsInit

InitMono == LossInit /\ BuildInit /\ TransAtRest /\ CnnAtRest /\ MonoInit /\ LsInit

InitLabelSmoothing == LossInit /\ BuildInit /\ TransAtRest /\ CnnAtRest /\ MonoInit /\ LsInit

SpecLoss == InitLoss /\ [][LossNext]_vars

SpecBuild == InitBuild /\ [][BuildNext]_vars

SpecTransformer == InitTransformer /\ [][TransNext]_vars

SpecCnn == InitCnn /\ [][CnnNext]_vars


SpecMono == InitMono /\ [][MonoNext]_vars

SpecLabelSmoothing == InitLabelSmoothing /\ [][LsNext]_vars
(***************************************************************************)
(* Properties of the loss engine.                                          *)
(***************************************************************************)
TensorKeys == {k \in DOMAIN state : IsTensor(state[k])}

SameFirstDim == \A k1, k2 \in TensorKeys : Len(state[k1].rows) = Len(state[k2].rows)

YieldedRows(k) == Concat([i \in 1..Len(yielded) |-> yielded[i][k].rows])

Exhausted == gen \in {"finished", "raised"}

\* C1: for a shard state whose tensors all have the same first-dimension
\* length, with eval_only unset, every yielded shard holds every tensor key,
\* the chunks of a key concatenated in yield order are at every moment a
\* prefix of the original rows, and once the iteration is exhausted they are
\* exactly the original rows, in their order.
C1_ShardsReconstruct ==
    (caller # "none" /\ ~eval_only /\ SameFirstDim) =>
        \A k \in TensorKeys :
            /\ \A i \in 1..Len(yielded) : k \in DOMAIN yielded[i]
            /\ Len(YieldedRows(k)) <= Len(state[k].rows)
            /\ YieldedRows(k) = SubSeq(state[k].rows, 1, Len(YieldedRows(k)))
            /\ Exhausted => YieldedRows(k) = state[k].rows

C1_Witness ==
    /\ caller = "sharded_compute_loss"
    /\ gen = "finished"
    /\ shard_size = 2
    /\ Len(yielded) = 2
    /\ Len(state.output.rows) = 3
    /\ Len(state.target.rows) = 3
    /\ YieldedRows("output") = state.output.rows

MonolithicStats == compute_loss(state.output.rows, state.target.rows, TRUE).stats

ShardStats(i) == compute_loss(yielded[i].output.rows, yielded[i].target.rows, TRUE).stats

RECURSIVE SumShardStats(_)
SumShardStats(n) ==
    IF n = 0 THEN EmptyStatistics ELSE StatisticsUpdate(SumShardStats(n - 1), ShardStats(n))

C3_DeferredBackwardLast ==
    /\ [](n_deferred <= 1)
    /\ []((gen \in {"none", "created", "closed"}) => n_deferred = 0)
    /\ [][n_deferred' # n_deferred =>
            /\ n_deferred = 0
            /\ gen = "yielded"
            /\ ~eval_only
            /\ Len(yielded) = NumShards(non_none)
            /\ yielded' = yielded
            /\ caller = "sharded_compute_loss" => n_shard_backward = Len(yielded)]_vars
    /\ [][gen = "closed" => gen' = "closed"]_vars
    /\ [][(caller = "sharded_compute_loss" /\ yielded' # yielded) =>
            n_shard_backward = Len(yielded)]_vars

C3_Witness ==
    /\ caller = "sharded_compute_loss"
    /\ lpc = "returned"
    /\ n_deferred = 1
    /\ Len(yielded) = 2
    /\ n_shard_backward = 2

\* C10: under eval_only exactly one item is yielded, consuming it gives the
\* state's own mapping of each key to its full tensor, and no chunking and no
\* backward happens.
C10_EvalOnlyYieldsState ==
    (eval_only /\ eval_item.status \in {"consumed", "raised"}) =>
        /\ eval_item.status = "consumed"
        /\ eval_item.pairs = [i \in 1..Len(KeysOf(state)) |->
                                 [key |-> KeysOf(state)[i], value |-> state[KeysOf(state)[i]]]]
        /\ yielded = <<>>
        /\ n_deferred = 0

(***************************************************************************)
(* Properties of build_loss_compute.                                       *)
(***************************************************************************)
\* C4: whenever opt.k != 0 and opt.bisect_iter != 0, whatever loss_fn and
\* loss_alpha, build_loss_compute ends in the assertion error with no
\* criterion constructed; so a returned criterion comes from an opt with
\* k = 0 or bisect_iter = 0 and never carries both a top-k parameter and a
\* bisection iteration count.
C4_TopkBisectExclusive ==
    b_result # "none" =>
        /\ (b_opt.k # 0 /\ b_opt.bisect_iter # 0) =>
              /\ b_result = "AssertionError"
              /\ b_constructed = 0
              /\ b_criterion = NoCriterion
        /\ b_result = "returned" =>
              /\ b_opt.k = 0 \/ b_opt.bisect_iter = 0
              /\ ~(b_criterion.k # 0 /\ b_criterion.n_iter # 0)

C4_Witness ==
    /\ b_result = "AssertionError"
    /\ b_opt.loss_fn = "esoftmax"
    /\ b_opt.k = 1
    /\ b_opt.bisect_iter = 2
    /\ b_constructed = 0

(***************************************************************************)
(* Properties of the transformer decoder state.                            *)
(***************************************************************************)
ExpectedLayerKeys == {LayerKey(l) : l \in 0..(num_layers - 1)}

IsFreshLayerCache(lc) ==
    /\ lc.memory_keys = NoneV
    /\ lc.memory_values = NoneV
    /\ IF self_attn_type = "average"
       THEN /\ DOMAIN lc = {"memory_keys", "memory_values", "prev_g"}
            /\ lc.prev_g.kind = "tensor"
            /\ Len(lc.prev_g.ax0) = BatchSize
            /\ lc.prev_g.ax1 = <<0>>
            /\ ~lc.prev_g.hist
       ELSE /\ DOMAIN lc = {"memory_keys", "memory_values", "self_keys", "self_values"}
            /\ lc.self_keys = NoneV
            /\ lc.self_values = NoneV

\* C5: after init_state the state is {src, cache = None}; a forward with
\* step == 0 enters its layer loop with exactly the entries layer_0 ..
\* layer_{num_layers-1}, each freshly allocated for the self-attention type;
\* and in an incremental forward the j-th layer call is handed the entry
\* layer_{j-1}, all num_layers of them by the end of the forward.
C5_CacheAllocatedPerLayer ==
    /\ (t_last.op = "init_state") => (t_src = t_last.arg /\ t_cache = NoneV)
    /\ (t_pc = "layers" /\ t_i = 0 /\ t_step.kind = "int" /\ t_step.val = 0) =>
          /\ t_cache.kind = "dict"
          /\ DOMAIN t_cache.layers = ExpectedLayerKeys
          /\ \A k \in DOMAIN t_cache.layers : IsFreshLayerCache(t_cache.layers[k])
    /\ (t_pc = "layers" /\ t_step.kind = "int") =>
          /\ Len(t_handed) = t_i
          /\ \A j \in 1..Len(t_handed) :
                t_handed[j] = [kind |-> "key", name |-> LayerKey(j - 1)]
    /\ (t_last.op = "forward" /\ t_last.ok = "ok" /\ t_step.kind = "int") =>
          Len(t_handed) = num_layers

C5_Witness ==
    /\ num_layers = 2
    /\ self_attn_type = "average"
    /\ t_last.op = "forward"
    /\ t_last.ok = "ok"
    /\ t_step = IntV(1)
    /\ Len(t_handed) = 2
    /\ t_cache.layers[LayerKey(1)].prev_g.ax1 = <<2>>

LeafLen(c, k, f) ==
    IF c.kind = "dict" /\ k \in DOMAIN c.layers /\ f \in DOMAIN c.layers[k]
    THEN TimeLen(c.layers[k][f]) ELSE 0

LeafFields == {"memory_keys", "memory_values", "self_keys", "self_values", "prev_g"}

\* The step keeps every allocated cache and the time length of every leaf.
NoShrink ==
    /\ t_cache.kind = "dict" => t_cache'.kind = "dict"
    /\ \A l \in 0..(MaxLayers - 1) : \A f \in LeafFields :
          LeafLen(t_cache', LayerKey(l), f) >= LeafLen(t_cache, LayerKey(l), f)

\* C6 as stated: no step of forward, map_state or detach_state (any step but
\* an init_state) shortens the history of a layer cache or discards an
\* allocated cache.
C6_CacheNeverShrinksInSession == [][t_last'.op # "init_state" => NoShrink]_vars

IsStepZeroBegin ==
    /\ t_pc = "idle"
    /\ t_last'.op = "forward"
    /\ t_last'.arg.kind = "int"
    /\ t_last'.arg.val = 0

\* C6 amended: within a session the history of a layer cache is shortened, or
\* the cache replaced by an empty one, only by a forward with step == 0, which
\* allocates the cache anew every time it is called; no other forward, no
\* map_state and no detach_state shortens a history or discards a cache.
C6_CacheShrinksOnlyAtStepZero ==
    [][(t_last'.op # "init_state" /\ ~IsStepZeroBegin) => NoShrink]_vars

C6_Witness ==
    /\ self_attn_type = "scaled-dot"
    /\ t_last.op = "map_state"
    /\ t_last.ok = "ok"
    /\ t_cache.kind = "dict"
    /\ TimeLen(t_cache.layers[LayerKey(0)].self_keys) = 2

IdentityIdx(idx) == \A i \in 1..Len(idx) : idx[i] = i

\* C7: after a map_state(fn) that returned, state.src is fn of the former src
\* (once), every leaf of the cache that was a tensor is fn of the former leaf
\* (once), every leaf that was None is None, the layer keys and the keys of
\* each layer are the former ones, and with the identity the state is the
\* former state.
C7_MapStateAppliesFnOnce ==
    (t_last.op = "map_state" /\ t_last.ok = "ok") =>
        /\ t_src = Fn(t_last.fn, t_pre.src, 1)
        /\ t_cache.kind = t_pre.cache.kind
        /\ t_cache.kind = "dict" =>
              /\ DOMAIN t_cache.layers = DOMAIN t_pre.cache.layers
              /\ \A k \in DOMAIN t_cache.layers :
                    /\ DOMAIN t_cache.layers[k] = DOMAIN t_pre.cache.layers[k]
                    /\ \A f \in DOMAIN t_cache.layers[k] :
                          IF t_pre.cache.layers[k][f].kind = "None"
                          THEN t_cache.layers[k][f].kind = "None"
                          ELSE t_cache.layers[k][f] = Fn(t_last.fn, t_pre.cache.layers[k][f], 0)
        /\ IdentityIdx(t_last.fn) => (t_src = t_pre.src /\ t_cache = t_pre.cache)

C7_Witness ==
    /\ t_last.op = "map_state"
    /\ t_last.ok = "ok"
    /\ t_last.fn = <<2, 1>>
    /\ t_src.ax1 = <<2, 1>>
    /\ num_layers = 2
    /\ self_attn_type = "scaled-dot"
    /\ t_cache.kind = "dict"
    /\ t_cache.layers[LayerKey(1)].self_keys.kind = "tensor"
    /\ t_cache.layers[LayerKey(1)].self_keys.ax0 = <<2, 1>>
    /\ Len(t_cache.layers[LayerKey(1)].self_keys.ax1) = 2

CacheHasHistory(c) ==
    /\ c.kind = "dict"
    /\ \E k \in DOMAIN c.layers : \E f \in DOMAIN c.layers[k] :
          c.layers[k][f].kind = "tensor" /\ c.layers[k][f].hist

\* C8: after a detach_state() that returned, neither state.src nor any tensor
\* of the cache carries autograd history.
C8_DetachStateSeversAllHistory ==
    (t_last.op = "detach_state" /\ t_last.ok = "ok") =>
        /\ ~t_src.hist
        /\ ~CacheHasHistory(t_cache)

(***************************************************************************)
(* Properties of the convolutional decoder state.                          *)
(***************************************************************************)
\* C9: after init_state and any number of forwards that returned,
\* state.previous_input is the targets of those forwards joined in call
\* order, and the output of the last forward has one time step per position
\* of its own target, the positions that follow the decoded prefix.
C9_PreviousInputIsAllTargets ==
    /\ c_prev.kind = "tensor" => c_prev.ax0 = c_targets
    /\ (c_prev.kind = "None") => c_targets = <<>>
    /\ (c_last.op = "forward" /\ c_last.ok = "ok") =>
          /\ c_prev.kind = "tensor"
          /\ Len(c_out) = c_last.len
          /\ c_out = [j \in 1..c_last.len |-> Len(c_targets) - c_last.len + j]

C9_Witness ==
    /\ c_last.op = "forward"
    /\ c_last.ok = "ok"
    /\ c_last.len = 1
    /\ c_targets = <<1, 2, 2>>
    /\ c_out = <<3>>


(***************************************************************************)
(* Shard states whose tensors split into different numbers of chunks.      *)
(***************************************************************************)
NumChunks(k) == Len(Split(state[k].rows, shard_size))

MismatchedChunks == \E k1, k2 \in TensorKeys : NumChunks(k1) # NumChunks(k2)

\* C11: when two tensor entries of the shard state split into different
\* numbers of chunks, shards raises instead of yielding: once the generator
\* has been resumed it has raised, and it has yielded no shard (none that
\* leaves rows of the longer entry out).
C11_MismatchedChunksRaise ==
    (caller # "none" /\ ~eval_only /\ MismatchedChunks /\ gen # "created") =>
        /\ gen \in {"raised", "closed"}
        /\ yielded = <<>>

(***************************************************************************)
(* Properties of _make_shard_state.                                        *)
(***************************************************************************)
\* The tokens of tgt at the 0-based positions p with lo <= p < hi, in order.
PositionsOf(tgt, lo, hi) ==
    LET top == IF hi <= Len(tgt) THEN hi ELSE Len(tgt)
        n == IF top > lo THEN top - lo ELSE 0
    IN  [i \in 1..n |-> tgt[lo + i]]

\* C12 as stated: _make_shard_state returns exactly the entries output and
\* target, target holding the positions p of batch.tgt with
\* range_start <= p < range_end in order, and neither the generator nor the
\* criterion has been invoked when it returns.
C12_TargetIsWholeRange ==
    m_pc = "made" =>
        /\ DOMAIN m_shard_state = {"output", "target"}
        /\ m_shard_state.output = m_output
        /\ m_shard_state.target.rows = PositionsOf(m_batch_tgt, m_range[1], m_range[2])
        /\ m_generator_calls = 0
        /\ m_criterion_calls = 0

\* C12 amended: as above, with target holding the positions p with
\* range_start + 1 <= p < range_end (position range_start is left out).
C12_TargetSkipsRangeStart ==
    m_pc = "made" =>
        /\ DOMAIN m_shard_state = {"output", "target"}
        /\ m_shard_state.output = m_output
        /\ m_shard_state.target.rows = PositionsOf(m_batch_tgt, m_range[1] + 1, m_range[2])
        /\ m_generator_calls = 0
        /\ m_criterion_calls = 0

C12_Witness ==
    /\ m_pc = "made"
    /\ m_caller = "sharded"
    /\ m_range = <<1, 3>>
    /\ m_batch_tgt = <<1, padding_idx, 1, padding_idx>>
    /\ m_shard_state.target.rows = <<1>>
    /\ m_shard_state.output = m_output
    /\ m_generator_calls = 0

(***************************************************************************)
(* Properties of the LabelSmoothingLoss constructor.                       *)
(***************************************************************************)
FractionPositive(f) == f.den # 0 /\ f.num * f.den > 0

\* C13: the constructor fails for every label_smoothing outside (0, 1] and
\* for every tgt_vocab_size below 3, and every instance it produces has a
\* defined, positive per-class smoothing value.
C13_ConstructorRejectsBadArguments ==
    ls_result # "none" =>
        /\ ~(0 < ls_args.label_smoothing /\ ls_args.label_smoothing <= 10) =>
               ls_result # "constructed"
        /\ ls_args.tgt_vocab_size < 3 => ls_result # "constructed"
        /\ ls_result = "constructed" => FractionPositive(ls_self.smoothing_value)

(***************************************************************************)
(* The number and the sizes of the shards of a single tensor.              *)
(***************************************************************************)
CeilDiv(a, b) == (a + b - 1) \div b

SingleTensor == Cardinality(TensorKeys) = 1

TheTensorKey == CHOOSE k \in TensorKeys : TRUE

ShardRows(i) == Len(yielded[i][TheTensorKey].rows)

\* The shards yielded so far are the first of n shards of at most shard_size
\* rows, all but the n-th of exactly shard_size rows; an exhausted iteration
\* has yielded all n.
YieldedAreFirstOf(n) ==
    /\ Len(yielded) <= n
    /\ \A i \in 1..Len(yielded) :
          /\ ShardRows(i) <= shard_size
          /\ i < n => ShardRows(i) = shard_size
    /\ Exhausted => Len(yielded) = n

\* C14 as stated: for a state with a single tensor of B rows and
\* shard_size S >= 1, shards yields exactly ceil(B / S) shards, each of at
\* most S rows and each but possibly the last of exactly S rows.
C14_CeilShardsOfSingleTensor ==
    (caller # "none" /\ ~eval_only /\ SingleTensor) =>
        YieldedAreFirstOf(CeilDiv(Len(state[TheTensorKey].rows), shard_size))

\* C14 amended: the same for B >= 1; a tensor of no rows gives exactly one
\* shard, which holds no rows.
C14_CeilShardsOfNonEmptyTensor ==
    (caller # "none" /\ ~eval_only /\ SingleTensor) =>
        LET B == Len(state[TheTensorKey].rows)
        IN  /\ B >= 1 => YieldedAreFirstOf(CeilDiv(B, shard_size))
            /\ B = 0 => /\ YieldedAreFirstOf(1)
                        /\ \A i \in 1..Len(yielded) : ShardRows(i) = 0

C14_Witness ==
    /\ caller = "direct"
    /\ ~eval_only
    /\ SingleTensor
    /\ Exhausted
    /\ shard_size = 2
    /\ Len(state[TheTensorKey].rows) = 3
    /\ Len(yielded) = 2
    /\ ShardRows(1) = 2
    /\ ShardRows(2) = 1

(***************************************************************************)
(* The gradients the deferred backward hands to the original tensors.      *)
(***************************************************************************)
\* The chunk copy holding row r of an original tensor, and r's row in it.
ChunkOfRow(r) == ((r - 1) \div shard_size) + 1

RowInChunk(r) == ((r - 1) % shard_size) + 1

GradOnCopyRow(k, r) == non_none[k].v_split[ChunkOfRow(r)].grad[RowInChunk(r)]

\* What the caller's backward left on the copy of row r: under
\* sharded_compute_loss the gradient of the row's own score and target.
OwnRowGrad(k, r) ==
    IF caller = "sharded_compute_loss"
    THEN <<state.output.rows[r], state.target.rows[r], normalization>>
    ELSE <<state[k].rows[r], 0, 1>>

\* C15: after the deferred backward, exactly the tensor entries that require
\* gradient have received one, each row of the original the gradient
\* accumulated on its own row of its own chunk copy; every yielded chunk is
\* a fresh copy whose requires_grad is that of its source; and the original
\* tensors receive gradient by the deferred backward only, never by the
\* backward on a yielded chunk.
C15_DeferredGradRowAligned ==
    /\ []((caller # "none" /\ ~eval_only /\ gen = "finished") =>
            /\ DOMAIN orig_grad = {k \in TensorKeys : state[k].requires_grad}
            /\ \A k \in DOMAIN orig_grad :
                  /\ Len(orig_grad[k]) = Len(state[k].rows)
                  /\ \A r \in 1..Len(state[k].rows) :
                        /\ orig_grad[k][r] = GradOnCopyRow(k, r)
                        /\ orig_grad[k][r] = OwnRowGrad(k, r))
    /\ [](\A i \in 1..Len(yielded) : \A k \in DOMAIN yielded[i] :
            /\ yielded[i][k].requires_grad = state[k].requires_grad
            /\ ~yielded[i][k].has_grad)
    /\ [][orig_grad' # orig_grad => n_deferred' = n_deferred + 1]_vars
    /\ []((gen # "finished") => orig_grad = <<>>)

C15_Witness ==
    /\ caller = "sharded_compute_loss"
    /\ gen = "finished"
    /\ shard_size = 2
    /\ Len(yielded) = 2
    /\ state.output.rows = <<1, 2, 1>>
    /\ state.target.rows = <<1, 1, padding_idx>>
    /\ DOMAIN orig_grad = {"output"}
    /\ orig_grad.output = <<<<1, 1, normalization>>, <<2, 1, normalization>>,
                            <<1, padding_idx, normalization>>>>

(***************************************************************************)
(* Shard states none of whose tensors requires gradient.                   *)
(***************************************************************************)
NoGradState == \A k \in TensorKeys : ~state[k].requires_grad

AllShards == filter_shard_state(state, shard_size)

\* C16: if no tensor entry of the state requires gradient and eval_only is
\* unset, the iteration never finishes normally: resumed after its last
\* shard the generator raises, having yielded every shard in order and
\* without calling torch.autograd.backward, and sharded_compute_loss never
\* returns but ends with the error.
C16_NoGradRaisesAfterLastShard ==
    /\ []((caller # "none" /\ ~eval_only /\ NoGradState) =>
            /\ gen # "finished"
            /\ n_deferred = 0
            /\ lpc # "returned"
            /\ gen = "raised" =>
                  /\ Len(yielded) = NumShards(AllShards)
                  /\ \A i \in 1..Len(yielded) : yielded[i] = ShardAt(AllShards, i)
                  /\ caller = "sharded_compute_loss" =>
                        (lpc = "error" /\ n_shard_backward = Len(yielded)))
    /\ [][(caller # "none" /\ ~eval_only /\ NoGradState /\ gen = "yielded"
             /\ Len(yielded) = NumShards(AllShards) /\ gen' # gen) =>
            gen' \in {"raised", "closed"}]_vars

C16_Witness ==
    /\ caller = "sharded_compute_loss"
    /\ NoGradState
    /\ gen = "raised"
    /\ lpc = "error"
    /\ Len(yielded) = 2
    /\ n_shard_backward = 2
    /\ n_deferred = 0

(***************************************************************************)
(* The order of a decoding session of the transformer decoder.             *)
(***************************************************************************)
BeforeInitState == t_src.kind = "nokey"

Incremental(step) == step.kind = "int" /\ step.val # 0

StateUnchanged == t_src' = t_src /\ t_cache' = t_cache

\* A step in which an operation of the decoder raises.
Raises == t_last'.ok = "raised" /\ (t_last' # t_last \/ t_pc' # t_pc)

\* An incremental forward never runs a layer without the cache allocated by a
\* step-0 forward: begun while the cache is unallocated it raises at the
\* first layer, and a forward that returned with a step was handed the cache
\* entry of every layer.
IncrementalNeedsCache ==
    /\ [][(t_last.op = "init_state" /\ t_last'.op = "forward" /\ Incremental(t_last'.arg)) =>
            (t_pc' = "layers" /\ t_cache'.kind = "None")]_vars
    /\ [][(t_pc = "layers" /\ t_step.kind = "int" /\ t_cache.kind # "dict") =>
            (Incremental(t_step) /\ t_i = 0 /\ t_handed = <<>>
             /\ t_last' = Last("forward", "raised", <<>>, t_step)
             /\ t_pc' = "idle")]_vars
    /\ []((t_last.op = "forward" /\ t_last.ok = "ok" /\ t_last.arg.kind = "int") =>
            /\ t_cache.kind = "dict"
            /\ t_handed = [i \in 1..num_layers |-> [kind |-> "key", name |-> LayerKey(i - 1)]])

\* Before any init_state no operation has succeeded.
NothingBeforeInitState ==
    [](BeforeInitState =>
          /\ t_pc = "idle"
          /\ t_last.op = "construct" \/ t_last.ok = "raised")

\* A forward with step = None hands no layer a cache and leaves the cache as
\* it is.
NoStepNoCache ==
    [][(t_last'.op = "forward" /\ t_last'.arg.kind = "None") =>
         /\ t_cache' = t_cache
         /\ t_src' = t_src
         /\ \A j \in 1..Len(t_handed') : t_handed'[j] = NoneV]_vars

\* C17 as stated: the session order is enforced (an incremental forward
\* without an allocated cache fails, forward and map_state before any
\* init_state fail), every failing operation leaves the decoder state
\* unchanged, and a forward with step = None neither reads nor modifies the
\* cache.
C17_SessionOrderFailuresChangeNothing ==
    /\ IncrementalNeedsCache
    /\ NothingBeforeInitState
    /\ NoStepNoCache
    /\ [][Raises => StateUnchanged]_vars

\* C17 amended: as above, except that a forward with step = 0 issued before
\* any init_state has allocated state["cache"], one fresh entry per layer,
\* when it fails on the missing state["src"].
C17_SessionOrderOnlyStepZeroAllocates ==
    /\ IncrementalNeedsCache
    /\ NothingBeforeInitState
    /\ NoStepNoCache
    /\ [][Raises =>
            IF BeforeInitState /\ t_last'.op = "forward" /\ t_last'.arg = IntV(0)
            THEN /\ t_src' = t_src
                 /\ t_cache'.kind = "dict"
                 /\ DOMAIN t_cache'.layers = ExpectedLayerKeys
                 /\ \A k \in ExpectedLayerKeys : IsFreshLayerCache(t_cache'.layers[k])
            ELSE StateUnchanged]_vars

C17_Witness ==
    /\ t_last = Last("forward", "raised", <<>>, IntV(1))
    /\ t_src.kind = "tensor"
    /\ t_cache.kind = "None"
    /\ t_pc = "idle"
    /\ t_handed = <<>>
====
